---- MODULE Spec2Model ----
(***************************************************************************)
(* Model of src/app/invoice-generator.tsx: the InvoiceGenerator component. *)
(*                                                                         *)
(* Strings are sequences of one-character strings, so that trim() is a     *)
(* computation.  Numbers are exact decimals counted in 1/Scale of a unit   *)
(* (unit prices, line totals, subtotal, tax, total); quantities are whole  *)
(* numbers.  IEEE-754 rounding of the products and sums is not modelled.   *)
(* Time is counted in milliseconds.                                        *)
(***************************************************************************)
EXTENDS Integers, Sequences, FiniteSets, TLC

VARIABLES companyName, customerName, invoiceNumber, invoiceDate,
          lineItems, toasts, timers, now, uuids, files, pushed, lastOp

header == <<companyName, customerName, invoiceNumber, invoiceDate>>
vars == <<companyName, customerName, invoiceNumber, invoiceDate,
          lineItems, toasts, timers, now, uuids, files, pushed, lastOp>>

(***************************************************************************)
(* Bounds of the model.                                                    *)
(***************************************************************************)
MaxItems == 3
MaxUuids == 3
MaxDraftItems == 2
MaxPushes == 2
MaxPeriods == 1
MaxJitter == 2

(***************************************************************************)
(* Program constants.                                                      *)
(***************************************************************************)
ToastDelay == 5000
TaxPercent == 10
FractionDigits == 2
Scale == 100000

(***************************************************************************)
(* Input values the handlers are driven with.                              *)
(***************************************************************************)
Texts == {<<>>, <<" ">>, <<" ", "a", " ">>}
Dates == {<<>>, <<"2024-01-01">>}
Quantities == {0, 2}
UnitPrices == {-500, 0, 1000490}
CompanyNames == {<<>>, <<" ", "a", " ">>}

(* The field names the three updateLineItem call sites pass, and the ids   *)
(* update and remove are driven with: those of present, of removed and of  *)
(* never created items.                                                    *)
Fields == {"description", "quantity", "unitPrice"}
Ids == 1..MaxUuids

StoreValues(field) ==
    CASE field = "description" -> {<<"a">>}
      [] field = "quantity" -> {-1, 2}
      [] field = "unitPrice" -> {1000490}

(***************************************************************************)
(* String.prototype.trim and the test !s.trim().                           *)
(***************************************************************************)
Whitespace == {" "}

RECURSIVE TrimStart(_)
TrimStart(s) ==
    IF s # <<>> /\ Head(s) \in Whitespace THEN TrimStart(Tail(s)) ELSE s

RECURSIVE TrimEnd(_)
TrimEnd(s) ==
    IF s # <<>> /\ s[Len(s)] \in Whitespace
    THEN TrimEnd(SubSeq(s, 1, Len(s) - 1))
    ELSE s

Trim(s) == TrimEnd(TrimStart(s))

(***************************************************************************)
(* uuidv4(): a fresh identifier; uuids counts the identifiers drawn.       *)
(***************************************************************************)
Uuidv4(n) == n + 1

(***************************************************************************)
(* Line item store.                                                        *)
(***************************************************************************)
NewLineItem(id) ==
    [id |-> id, description |-> <<>>, quantity |-> 0, unitPrice |-> 0]

(* Faulty variant: the id is taken from the list length. *)
addLineItemByIndex(items, id) == Append(items, NewLineItem(Len(items) + 1))

addLineItem(items, id) == Append(items, NewLineItem(id))

(* Faulty variant: the matched item is rebuilt without its other fields. *)
updateLineItemNoSpread(items, id, field, value) ==
    [i \in DOMAIN items |->
        IF items[i].id = id
        THEN [NewLineItem(items[i].id) EXCEPT ![field] = value]
        ELSE items[i]]

updateLineItem(items, id, field, value) ==
    [i \in DOMAIN items |->
        IF items[i].id = id THEN [items[i] EXCEPT ![field] = value]
                            ELSE items[i]]

(* Faulty variant: the filter keeps the matching item instead. *)
removeLineItemKeep(items, id) ==
    SelectSeq(items, LAMBDA item : item.id = id)

removeLineItem(items, id) ==
    SelectSeq(items, LAMBDA item : item.id # id)

(***************************************************************************)
(* Derived values.                                                         *)
(***************************************************************************)
RECURSIVE Reduce(_, _)
Reduce(items, sum) ==
    IF items = <<>> THEN sum
    ELSE Reduce(Tail(items),
                sum + Head(items).quantity * Head(items).unitPrice)

(* Faulty variant: the accumulator is overwritten, not added to. *)
RECURSIVE ReduceNoSum(_, _)
ReduceNoSum(items, sum) ==
    IF items = <<>> THEN sum
    ELSE ReduceNoSum(Tail(items),
                     Head(items).quantity * Head(items).unitPrice)

calculateSubtotalNoSum(items) == ReduceNoSum(items, 0)

calculateSubtotal(items) == Reduce(items, 0)

TimesTaxRate(x) == (x * TaxPercent) \div 100

calculateTotal(items) ==
    LET subtotal == calculateSubtotal(items)
        tax == TimesTaxRate(subtotal)
    IN  subtotal + tax

(***************************************************************************)
(* Number.prototype.toFixed(2) and toString, as the text they produce.     *)
(***************************************************************************)
RECURSIVE Pow10(_)
Pow10(n) == IF n = 0 THEN 1 ELSE 10 * Pow10(n - 1)

Abs(x) == IF x < 0 THEN -x ELSE x

ToFixed(x, digits) ==
    LET step == Scale \div Pow10(digits)
        n == (Abs(x) + step \div 2) \div step
    IN  [sign |-> IF x < 0 THEN "-" ELSE "",
         int |-> n \div Pow10(digits),
         frac |-> n % Pow10(digits)]

NumberToString(n) == [sign |-> IF n < 0 THEN "-" ELSE "", int |-> Abs(n)]

(***************************************************************************)
(* validateForm: the first failing check decides the toast; valid only     *)
(* when every check passes.                                                *)
(***************************************************************************)
CompanyRequired == "Company name is required"
CustomerRequired == "Customer name is required"
NumberRequired == "Invoice number is required"
DateRequired == "Invoice date is required"
ItemRequired == "At least one item is required"
DescriptionRequired == "All items must have a description"
QuantityPositive == "All items must have a quantity greater than 0"
UnitPriceNonNegative == "All items must have a unit price of 0 or greater"
Generated == "Invoice generated successfully"

Invalid(message) == [valid |-> FALSE, message |-> message]
Valid == [valid |-> TRUE, message |-> ""]

(* Faulty variant: each check runs over all items before the next check. *)
validateItemsByRule(items) ==
    IF \E i \in DOMAIN items : Trim(items[i].description) = <<>>
    THEN Invalid(DescriptionRequired)
    ELSE IF \E i \in DOMAIN items : items[i].quantity <= 0
    THEN Invalid(QuantityPositive)
    ELSE IF \E i \in DOMAIN items : items[i].unitPrice < 0
    THEN Invalid(UnitPriceNonNegative)
    ELSE Valid

(* Faulty variant: a quantity of 0 is accepted. *)
RECURSIVE validateItemsStrict(_)
validateItemsStrict(items) ==
    IF items = <<>> THEN Valid
    ELSE LET item == Head(items) IN
         IF Trim(item.description) = <<>> THEN Invalid(DescriptionRequired)
         ELSE IF item.quantity < 0 THEN Invalid(QuantityPositive)
         ELSE IF item.unitPrice < 0 THEN Invalid(UnitPriceNonNegative)
         ELSE validateItemsStrict(Tail(items))

RECURSIVE validateItems(_)
validateItems(items) ==
    IF items = <<>> THEN Valid
    ELSE LET item == Head(items) IN
         IF Trim(item.description) = <<>> THEN Invalid(DescriptionRequired)
         ELSE IF item.quantity <= 0 THEN Invalid(QuantityPositive)
         ELSE IF item.unitPrice < 0 THEN Invalid(UnitPriceNonNegative)
         ELSE validateItems(Tail(items))

validateForm(company, customer, number, date, items) ==
    IF Trim(company) = <<>> THEN Invalid(CompanyRequired)
    ELSE IF Trim(customer) = <<>> THEN Invalid(CustomerRequired)
    ELSE IF Trim(number) = <<>> THEN Invalid(NumberRequired)
    ELSE IF date = <<>> THEN Invalid(DateRequired)
    ELSE IF Len(items) = 0 THEN Invalid(ItemRequired)
    ELSE validateItems(items)

(***************************************************************************)
(* The document handleDownload builds and saves.                           *)
(***************************************************************************)
TableRow(item) ==
    <<item.description,
      NumberToString(item.quantity),
      <<"$", ToFixed(item.unitPrice, FractionDigits)>>,
      <<"$", ToFixed(item.quantity * item.unitPrice, FractionDigits)>> >>

Document(company, customer, number, date, items) ==
    [title |-> "Invoice",
     meta |-> << <<"Company: ", company>>,
                 <<"Customer: ", customer>>,
                 <<"Invoice Number: ", number>>,
                 <<"Date: ", date>> >>,
     head |-> <<"Description", "Quantity", "Unit Price", "Total">>,
     body |-> [i \in DOMAIN items |-> TableRow(items[i])],
     totals |-> << <<"Subtotal: $",
                     ToFixed(calculateSubtotal(items), FractionDigits)>>,
                   <<"Tax (10%): $",
                     ToFixed(TimesTaxRate(calculateSubtotal(items)),
                             FractionDigits)>>,
                   <<"Total: $",
                     ToFixed(calculateTotal(items), FractionDigits)>> >>,
     name |-> "invoice.pdf"]

(***************************************************************************)
(* The totals the component renders under the table.                       *)
(***************************************************************************)
TotalsView(items) ==
    [subtotal |-> ToFixed(calculateSubtotal(items), FractionDigits),
     tax |-> ToFixed(TimesTaxRate(calculateSubtotal(items)), FractionDigits),
     total |-> ToFixed(calculateTotal(items), FractionDigits)]

(***************************************************************************)
(* Initial states.                                                         *)
(***************************************************************************)
NoOp == [op |-> "none", id |-> 0, field |-> ""]

Op(name) == [NoOp EXCEPT !.op = name]

InitRest ==
    /\ toasts = <<>>
    /\ timers = {}
    /\ now = 0
    /\ files = <<>>
    /\ pushed = <<>>
    /\ lastOp = NoOp

Init ==
    /\ companyName = <<>>
    /\ customerName = <<>>
    /\ invoiceNumber = <<>>
    /\ invoiceDate = <<>>
    /\ lineItems = <<>>
    /\ uuids = 0
    /\ InitRest

(***************************************************************************)
(* Handlers.  Each header input sets its field from e.target.value;        *)
(* SetCompanyName is the one the queue specification drives, the export    *)
(* specification draws all four fields in InitDraft.  lastOp records the   *)
(* handler that ran last with its id and field arguments, and pushed       *)
(* records every notification showToast has pushed with the time of the    *)
(* push; neither is read by a handler.                                     *)
(***************************************************************************)
queue == <<toasts, timers, now, files, pushed>>

SetCompanyName(value) ==
    /\ companyName' = value
    /\ lastOp' = Op("setCompanyName")
    /\ UNCHANGED <<customerName, invoiceNumber, invoiceDate, lineItems,
                   uuids, queue>>

AddLineItem ==
    /\ uuids' = Uuidv4(uuids)
    /\ lineItems' = addLineItem(lineItems, uuids')
    /\ lastOp' = [Op("addLineItem") EXCEPT !.id = uuids']
    /\ UNCHANGED <<header, queue>>

UpdateLineItem(id, field, value) ==
    /\ lineItems' = updateLineItem(lineItems, id, field, value)
    /\ lastOp' = [op |-> "updateLineItem", id |-> id, field |-> field]
    /\ UNCHANGED <<header, uuids, queue>>

RemoveLineItem(id) ==
    /\ lineItems' = removeLineItem(lineItems, id)
    /\ lastOp' = [Op("removeLineItem") EXCEPT !.id = id]
    /\ UNCHANGED <<header, uuids, queue>>

(* Faulty variant: the timer is set to a tenth of the delay. *)
ShowToastShortDelay(message, type) ==
    /\ uuids' = Uuidv4(uuids)
    /\ toasts' = Append(toasts, [id |-> uuids', message |-> message,
                                 type |-> type])
    /\ timers' = timers \cup {[id |-> uuids', due |-> now + ToastDelay \div 10]}
    /\ pushed' = Append(pushed, [id |-> uuids', message |-> message,
                                 type |-> type, at |-> now])

(* Faulty variant: the id is derived from the clock. *)
ShowToastByTime(message, type) ==
    /\ uuids' = Uuidv4(uuids)
    /\ toasts' = Append(toasts, [id |-> now + 1, message |-> message,
                                 type |-> type])
    /\ timers' = timers \cup {[id |-> now + 1, due |-> now + ToastDelay]}
    /\ pushed' = Append(pushed, [id |-> now + 1, message |-> message,
                                 type |-> type, at |-> now])

ShowToast(message, type) ==
    /\ uuids' = Uuidv4(uuids)
    /\ toasts' = Append(toasts, [id |-> uuids', message |-> message,
                                 type |-> type])
    /\ timers' = timers \cup {[id |-> uuids', due |-> now + ToastDelay]}
    /\ pushed' = Append(pushed, [id |-> uuids', message |-> message,
                                 type |-> type, at |-> now])

(* Faulty variant: the document is built without validating. *)
HandleDownloadUnchecked ==
    /\ files' = Append(files,
                       Document(companyName, customerName, invoiceNumber,
                                invoiceDate, lineItems))
    /\ ShowToast(Generated, "success")
    /\ lastOp' = Op("handleDownload")
    /\ UNCHANGED <<header, lineItems, now>>

HandleDownload ==
    LET result == validateForm(companyName, customerName, invoiceNumber,
                               invoiceDate, lineItems)
    IN  /\ IF result.valid
           THEN /\ files' = Append(files,
                        Document(companyName, customerName, invoiceNumber,
                                 invoiceDate, lineItems))
                /\ ShowToast(Generated, "success")
           ELSE /\ files' = files
                /\ ShowToast(result.message, "error")
        /\ lastOp' = Op("handleDownload")
        /\ UNCHANGED <<header, lineItems, now>>

(* Faulty variant: the callback filters by message text. *)
TimerFireByMessage(timer) ==
    /\ timer \in timers
    /\ now >= timer.due
    /\ LET expired == {toasts[i].message : i \in
                          {j \in DOMAIN toasts : toasts[j].id = timer.id}}
       IN  toasts' = SelectSeq(toasts,
                               LAMBDA toast : toast.message \notin expired)
    /\ timers' = timers \ {timer}
    /\ lastOp' = [Op("timer") EXCEPT !.id = timer.id]
    /\ UNCHANGED <<header, lineItems, now, uuids, files, pushed>>

(* The setTimeout callback of one notification.  setTimeout promises the  *)
(* callback no earlier than the delay; how much later it runs is up to the *)
(* event loop, so time may pass a due timer (Tick has no deadline guard).  *)
TimerFire(timer) ==
    /\ timer \in timers
    /\ now >= timer.due
    /\ toasts' = SelectSeq(toasts, LAMBDA toast : toast.id # timer.id)
    /\ timers' = timers \ {timer}
    /\ lastOp' = [Op("timer") EXCEPT !.id = timer.id]
    /\ UNCHANGED <<header, lineItems, now, uuids, files, pushed>>

(* The instants at which the clock is observed: around each multiple of   *)
(* the delay, one millisecond apart.                                       *)
SampleTimes ==
    {period * (ToastDelay - 1) + jitter :
        period \in 0..MaxPeriods, jitter \in 0..MaxJitter}

Tick(time) ==
    /\ time > now
    /\ now' = time
    /\ lastOp' = Op("tick")
    /\ UNCHANGED <<header, lineItems, toasts, timers, uuids, files, pushed>>

(***************************************************************************)
(* Drafts a session can have typed in: any header, any items in the order  *)
(* they were added.                                                        *)
(***************************************************************************)
ItemValues ==
    [description : Texts, quantity : Quantities, unitPrice : UnitPrices]

DraftItems ==
    UNION {{[i \in 1..n |-> [id |-> i,
                             description |-> values[i].description,
                             quantity |-> values[i].quantity,
                             unitPrice |-> values[i].unitPrice]] :
               values \in [1..n -> ItemValues]} : n \in 0..MaxDraftItems}

InitDraft ==
    /\ companyName \in Texts
    /\ customerName \in Texts
    /\ invoiceNumber \in Texts
    /\ invoiceDate \in Dates
    /\ lineItems \in DraftItems
    /\ uuids = Len(lineItems)
    /\ InitRest

ScenarioA ==
    /\ companyName = <<" ", "a", " ">>
    /\ customerName = <<" ", "a", " ">>
    /\ invoiceNumber = <<" ", "a", " ">>
    /\ invoiceDate = <<"2024-01-01">>
    /\ lineItems = <<[id |-> 1, description |-> <<" ", "a", " ">>,
                      quantity |-> 2, unitPrice |-> 1000490]>>
    /\ uuids = 1
    /\ InitRest

(***************************************************************************)
(* Next-state relations: the line item store, the export button, and the   *)
(* notification queue with its timers.                                     *)
(***************************************************************************)
NextStore ==
    \/ uuids < MaxUuids /\ Len(lineItems) < MaxItems /\ AddLineItem
    \/ \E id \in Ids, field \in Fields :
          \E value \in StoreValues(field) : UpdateLineItem(id, field, value)
    \/ \E id \in Ids : RemoveLineItem(id)

SpecStore == Init /\ [][NextStore]_vars

NextExport == Len(pushed) < MaxPushes /\ HandleDownload

SpecExport == InitDraft /\ [][NextExport]_vars

ToastIds == 1..(MaxPushes + 1)

Horizon == MaxPeriods * (ToastDelay - 1) + MaxJitter

NextQueue ==
    \/ \E value \in CompanyNames : SetCompanyName(value)
    \/ /\ Len(pushed) < MaxPushes
       /\ now + ToastDelay <= Horizon
       /\ HandleDownload
    \/ \E timer \in timers : TimerFire(timer)
    \/ \E time \in SampleTimes : Tick(time)

SpecQueue == ScenarioA /\ [][NextQueue]_vars

FairSpecQueue ==
    /\ SpecQueue
    /\ WF_vars(\E time \in SampleTimes : Tick(time))
    /\ WF_vars(\E timer \in timers : TimerFire(timer))

(***************************************************************************)
(* Vocabulary of the properties.                                           *)
(***************************************************************************)
IdsOf(items) == [i \in DOMAIN items |-> items[i].id]

HasId(items, id) == \E i \in DOMAIN items : items[i].id = id

Without(s, k) == SubSeq(s, 1, k - 1) \o SubSeq(s, k + 1, Len(s))

LineTotal(item) == item.quantity * item.unitPrice

RECURSIVE SumOfLineTotals(_, _)
SumOfLineTotals(items, n) ==
    IF n = 0 THEN 0
    ELSE SumOfLineTotals(items, n - 1) + LineTotal(items[n])

AllFields == {"id", "description", "quantity", "unitPrice"}

(***************************************************************************)
(* The validation rules in their order: five on the header and the list,   *)
(* then three per item, item by item.                                      *)
(***************************************************************************)
HeaderRules ==
    << [fails |-> Trim(companyName) = <<>>, message |-> CompanyRequired],
       [fails |-> Trim(customerName) = <<>>, message |-> CustomerRequired],
       [fails |-> Trim(invoiceNumber) = <<>>, message |-> NumberRequired],
       [fails |-> invoiceDate = <<>>, message |-> DateRequired],
       [fails |-> lineItems = <<>>, message |-> ItemRequired] >>

ItemRules(item) ==
    << [fails |-> Trim(item.description) = <<>>,
        message |-> DescriptionRequired],
       [fails |-> ~(item.quantity > 0), message |-> QuantityPositive],
       [fails |-> ~(item.unitPrice >= 0), message |-> UnitPriceNonNegative] >>

Rules ==
    HeaderRules \o
    [n \in 1..(3 * Len(lineItems)) |->
        ItemRules(lineItems[((n - 1) \div 3) + 1])[((n - 1) % 3) + 1]]

NoRuleFails == LET rules == Rules IN \A k \in DOMAIN rules : ~rules[k].fails

FirstFailing ==
    LET rules == Rules
    IN  rules[CHOOSE k \in DOMAIN rules :
                /\ rules[k].fails
                /\ \A j \in 1..(k - 1) : ~rules[j].fails]

ItemPasses(item) == \A r \in 1..3 : ~ItemRules(item)[r].fails

HeaderPasses == \A k \in DOMAIN HeaderRules : ~HeaderRules[k].fails

Exporting == lastOp'.op = "handleDownload"

NewToast == toasts'[Len(toasts')]

LastPushed == pushed[Len(pushed)]

(***************************************************************************)
(* C1. An export of a draft on which some rule fails reports exactly the   *)
(* message of the first failing rule, as one error notification, and saves *)
(* nothing; validation passes (the file is saved, and the one notification *)
(* is the success one) only when no rule fails.  With companyName and      *)
(* customerName both missing the message is "Company name is required".    *)
(***************************************************************************)
ReportsFirstFailingRule ==
    Exporting =>
        /\ IF NoRuleFails
           THEN /\ Len(files') = Len(files) + 1
                /\ Len(toasts') = Len(toasts) + 1
                /\ NewToast.type = "success"
           ELSE /\ files' = files
                /\ toasts' = Append(toasts,
                      [id |-> NewToast.id,
                       message |-> FirstFailing.message,
                       type |-> "error"])
        /\ Trim(companyName) = <<>> /\ Trim(customerName) = <<>>
              => NewToast.message = CompanyRequired

C1_FirstFailingRule == [][ReportsFirstFailingRule]_vars

C1_Witness ==
    /\ lastOp.op = "handleDownload"
    /\ HeaderPasses
    /\ Len(lineItems) = 2
    /\ Trim(lineItems[1].description) # <<>>
    /\ lineItems[1].quantity > 0
    /\ lineItems[1].unitPrice < 0
    /\ Trim(lineItems[2].description) = <<>>
    /\ LastPushed.message = UnitPriceNonNegative

(***************************************************************************)
(* C2. An export of a draft that fails validation saves no file, pushes no *)
(* success notification, appends exactly one error notification and leaves *)
(* the header and the line items unchanged; and a file is saved only by an *)
(* export whose draft passed validation.                                   *)
(***************************************************************************)
FailedExportFrame ==
    Exporting /\ ~NoRuleFails =>
        /\ files' = files
        /\ Len(toasts') = Len(toasts) + 1
        /\ SubSeq(toasts', 1, Len(toasts)) = toasts
        /\ NewToast.type = "error"
        /\ UNCHANGED <<header, lineItems>>

EmissionValidated ==
    files' # files =>
        /\ Exporting
        /\ NoRuleFails
        /\ files' = Append(files, files'[Len(files')])

C2_FailedExportBlocked == [][FailedExportFrame /\ EmissionValidated]_vars

C2_Witness ==
    /\ lastOp.op = "handleDownload"
    /\ ~NoRuleFails
    /\ files = <<>>
    /\ Len(toasts) = 2
    /\ \A i \in DOMAIN toasts : toasts[i].type = "error"

(***************************************************************************)
(* C3, as stated: exporting any draft that holds an item with quantity 0   *)
(* is blocked with the message "All items must have a quantity greater     *)
(* than 0".                                                                *)
(***************************************************************************)
HasZeroQuantity == \E i \in DOMAIN lineItems : lineItems[i].quantity = 0

ZeroQuantityReported ==
    Exporting /\ HasZeroQuantity =>
        /\ files' = files
        /\ NewToast.type = "error"
        /\ NewToast.message = QuantityPositive

C3_AsStated == [][ZeroQuantityReported]_vars

(***************************************************************************)
(* C3, amended: exporting a draft that holds an item with quantity 0 is    *)
(* always blocked with an error notification; the message is the quantity  *)
(* one when the header rules pass, every item before the first such item   *)
(* passes its three checks, and that item has a non-blank description.     *)
(***************************************************************************)
FirstZeroQuantity ==
    CHOOSE i \in DOMAIN lineItems :
        /\ lineItems[i].quantity = 0
        /\ \A j \in 1..(i - 1) : lineItems[j].quantity # 0

ZeroQuantityBlocked ==
    Exporting /\ HasZeroQuantity =>
        /\ files' = files
        /\ NewToast.type = "error"
        /\ ( /\ HeaderPasses
             /\ \A j \in 1..(FirstZeroQuantity - 1) :
                   ItemPasses(lineItems[j])
             /\ Trim(lineItems[FirstZeroQuantity].description) # <<>> )
           => NewToast.message = QuantityPositive

C3_ZeroQuantityBlocked == [][ZeroQuantityBlocked]_vars

C3_Witness ==
    /\ lastOp.op = "handleDownload"
    /\ HasZeroQuantity
    /\ files = <<>>
    /\ LastPushed.type = "error"
    /\ LastPushed.message = QuantityPositive

(***************************************************************************)
(* C9. An export that directly follows a successful export of the same     *)
(* draft saves a second file equal to the first and appends a second       *)
(* success notification whose id differs from the first one's; each has    *)
(* its own pending timer, and the draft is unchanged.                      *)
(***************************************************************************)
TimersOf(set, id) == {timer \in set : timer.id = id}

SecondExport ==
    ( /\ lastOp.op = "handleDownload"
      /\ NoRuleFails
      /\ files # <<>>
      /\ Exporting ) =>
        LET first == toasts[Len(toasts)]
            second == NewToast
        IN  /\ files' = Append(files, files[Len(files)])
            /\ toasts' = Append(toasts, second)
            /\ first.type = "success"
            /\ second.type = "success"
            /\ second.message = first.message
            /\ second.id # first.id
            /\ Cardinality(TimersOf(timers', first.id)) = 1
            /\ Cardinality(TimersOf(timers', second.id)) = 1
            /\ TimersOf(timers', first.id) = TimersOf(timers, first.id)
            /\ UNCHANGED <<header, lineItems>>

C9_ExportTwice == [][SecondExport]_vars

C9_Witness ==
    /\ lastOp.op = "handleDownload"
    /\ Len(files) = 2
    /\ files[1] = files[2]
    /\ Len(lineItems) = 2
    /\ Len(toasts) = 2
    /\ toasts[1].id # toasts[2].id
    /\ \A i \in DOMAIN toasts : toasts[i].type = "success"

(***************************************************************************)
(* C10. The queue is exactly the pushed notifications whose timers are     *)
(* still pending, in push order; a timer expiry removes the one entry with *)
(* its id, and every other step leaves the queue alone or appends to it.   *)
(***************************************************************************)
InQueue(id) == \E i \in DOMAIN toasts : toasts[i].id = id

Pending(id) == \E timer \in timers : timer.id = id

PushedToasts ==
    [k \in DOMAIN pushed |-> [id |-> pushed[k].id,
                              message |-> pushed[k].message,
                              type |-> pushed[k].type]]

QueueIsPendingInPushOrder ==
    toasts = SelectSeq(PushedToasts, LAMBDA toast : Pending(toast.id))

ExpiryRemovesOwnEntry ==
    IF lastOp'.op = "timer"
    THEN \E k \in DOMAIN toasts :
            /\ toasts[k].id = lastOp'.id
            /\ toasts' = Without(toasts, k)
    ELSE \/ toasts' = toasts
         \/ /\ Len(toasts') = Len(toasts) + 1
            /\ SubSeq(toasts', 1, Len(toasts)) = toasts
            /\ Exporting

C10_QueueIsPendingInOrder ==
    []QueueIsPendingInPushOrder /\ [][ExpiryRemovesOwnEntry]_vars

C10_Witness ==
    /\ lastOp.op = "timer"
    /\ Len(pushed) = 2
    /\ pushed[1].message = pushed[2].message
    /\ pushed[1].type = pushed[2].type
    /\ lastOp.id = pushed[1].id
    /\ toasts = <<PushedToasts[2]>>

(***************************************************************************)
(* C4, as stated: a notification pushed at time T is in the queue at every *)
(* instant up to T + 4999 ms and absent from T + 5001 ms on.               *)
(***************************************************************************)
C4_AsStated ==
    \A k \in DOMAIN pushed :
        /\ now <= pushed[k].at + ToastDelay - 1 => InQueue(pushed[k].id)
        /\ now >= pushed[k].at + ToastDelay + 1 => ~InQueue(pushed[k].id)

(***************************************************************************)
(* C4, amended: a notification pushed at time T is in the queue at every   *)
(* instant before T + 5000 ms, whatever else happens; it leaves the queue  *)
(* only when its own timer callback runs, which is at T + 5000 ms or       *)
(* later; once out it stays out; and it is eventually removed.             *)
(***************************************************************************)
PresentBeforeDelay ==
    \A k \in DOMAIN pushed :
        now < pushed[k].at + ToastDelay => InQueue(pushed[k].id)

RemovedByOwnTimer ==
    \A k \in DOMAIN pushed :
        LET id == pushed[k].id
        IN  /\ InQueue(id) /\ ~InQueue(id)' =>
                  /\ lastOp'.op = "timer"
                  /\ lastOp'.id = id
                  /\ now' >= pushed[k].at + ToastDelay
            /\ ~InQueue(id) => ~InQueue(id)'

EventuallyRemoved == \A id \in ToastIds : InQueue(id) ~> ~InQueue(id)

C4_NeverEarlyEventuallyRemoved ==
    /\ []PresentBeforeDelay
    /\ [][RemovedByOwnTimer]_vars
    /\ EventuallyRemoved

C4_Witness ==
    /\ lastOp.op = "timer"
    /\ Len(pushed) = 2
    /\ toasts = <<>>
    /\ \E k \in DOMAIN pushed :
          /\ pushed[k].id = lastOp.id
          /\ now >= pushed[k].at + ToastDelay

(***************************************************************************)
(* C5. The subtotal is the sum of quantity * unitPrice over the current    *)
(* items (0 for no items), the tax shown and exported is one tenth of it,  *)
(* and the total is subtotal plus tax, whatever adds, updates and removes  *)
(* produced the list.                                                      *)
(***************************************************************************)
C5_TotalsMatchSums ==
    LET sum == SumOfLineTotals(lineItems, Len(lineItems))
        tax == TimesTaxRate(calculateSubtotal(lineItems))
        exported == Document(companyName, customerName, invoiceNumber,
                             invoiceDate, lineItems).totals
    IN  /\ calculateSubtotal(lineItems) = sum
        /\ lineItems = <<>> => calculateSubtotal(lineItems) = 0
        /\ 10 * tax = sum
        /\ calculateTotal(lineItems) = sum + tax
        /\ TotalsView(lineItems) =
              [subtotal |-> ToFixed(sum, 2), tax |-> ToFixed(tax, 2),
               total |-> ToFixed(sum + tax, 2)]
        /\ exported = << <<"Subtotal: $", ToFixed(sum, 2)>>,
                         <<"Tax (10%): $", ToFixed(tax, 2)>>,
                         <<"Total: $", ToFixed(sum + tax, 2)>> >>

C5_Witness ==
    /\ lastOp.op = "removeLineItem"
    /\ Len(lineItems) = 2
    /\ \A i \in DOMAIN lineItems : LineTotal(lineItems[i]) # 0

(***************************************************************************)
(* C6. The ids of the line items are pairwise distinct in every state, and *)
(* a step never changes the id of an item that stays in the list: the ids  *)
(* after a step are the ids before it, with one removed or with one that   *)
(* no item has appended.                                                   *)
(***************************************************************************)
IdsDistinct ==
    \A i, j \in DOMAIN lineItems :
        lineItems[i].id = lineItems[j].id => i = j

IdsStable ==
    LET before == IdsOf(lineItems)
        after == IdsOf(lineItems')
    IN  \/ after = before
        \/ /\ Len(after) = Len(before) + 1
           /\ SubSeq(after, 1, Len(before)) = before
           /\ ~HasId(lineItems, after[Len(after)])
        \/ \E k \in DOMAIN before : after = Without(before, k)

C6_IdsUniqueAndStable == []IdsDistinct /\ [][IdsStable]_vars

C6_Witness ==
    /\ lastOp.op = "updateLineItem"
    /\ HasId(lineItems, lastOp.id)
    /\ Len(lineItems) = 2
    /\ uuids > Len(lineItems)

(***************************************************************************)
(* C7. updateLineItem(id, field, value) keeps the length and order of the  *)
(* list, every item with another id, and every other field of the item     *)
(* with that id; the header and the notification queue are unchanged; when *)
(* no item has the id, the list is unchanged.                              *)
(***************************************************************************)
UpdateFrame ==
    lastOp'.op = "updateLineItem" =>
        /\ Len(lineItems') = Len(lineItems)
        /\ \A i \in DOMAIN lineItems :
              /\ lineItems[i].id # lastOp'.id => lineItems'[i] = lineItems[i]
              /\ \A other \in AllFields \ {lastOp'.field} :
                    lineItems'[i][other] = lineItems[i][other]
        /\ ~HasId(lineItems, lastOp'.id) => lineItems' = lineItems
        /\ UNCHANGED <<header, toasts, timers, files, uuids>>

C7_UpdateFrame == [][UpdateFrame]_vars

C7_Witness ==
    /\ lastOp.op = "updateLineItem"
    /\ Len(lineItems) = 3
    /\ lineItems[2].id = lastOp.id
    /\ lineItems[2][lastOp.field] # NewLineItem(0)[lastOp.field]
    /\ \A i \in DOMAIN lineItems : lineItems[i].quantity # 0

(***************************************************************************)
(* C8. removeLineItem(id) removes exactly the item with that id and keeps  *)
(* the others as they were, in their order; with no such item the list is  *)
(* unchanged.  addLineItem appends.  So the list is always in order of     *)
(* creation (identifiers are drawn in increasing order in this model).     *)
(***************************************************************************)
RemoveFrame ==
    lastOp'.op = "removeLineItem" =>
        /\ \A k \in DOMAIN lineItems :
              lineItems[k].id = lastOp'.id =>
                  lineItems' = Without(lineItems, k)
        /\ ~HasId(lineItems, lastOp'.id) => lineItems' = lineItems
        /\ UNCHANGED <<header, toasts, timers, files, uuids>>

AddFrame ==
    lastOp'.op = "addLineItem" =>
        /\ Len(lineItems') = Len(lineItems) + 1
        /\ SubSeq(lineItems', 1, Len(lineItems)) = lineItems

InCreationOrder ==
    \A i, j \in DOMAIN lineItems :
        i < j => lineItems[i].id < lineItems[j].id

C8_RemoveFrame == []InCreationOrder /\ [][RemoveFrame /\ AddFrame]_vars

C8_Witness ==
    /\ lastOp.op = "removeLineItem"
    /\ IdsOf(lineItems) = <<1, 3>>
    /\ \A i \in DOMAIN lineItems : lineItems[i].description # <<>>

====
